---- MODULE Spec2Model ----
(***************************************************************************)
(* A model of the zerobrew installer engine: Installer::execute,           *)
(* Installer::uninstall and Installer::gc (zb_io/src/install.rs) over the  *)
(* linker (zb_io/src/link.rs), the cellar (zb_io/src/materialize.rs), the  *)
(* store, the blob cache and the metadata database.                        *)
(*                                                                         *)
(* The filesystem is modelled by what the code observes of it:             *)
(*   cache   the set of blobs cache/<sha256>                               *)
(*   store   the set of store entries store/<sha256>/                      *)
(*   cellar  for each keg cellar/<name>/<version>: absent, partial (the    *)
(*           directory exists, the copy stopped before bin/), or full      *)
(*   bin     for each basename e, the entry at prefix/bin/<e>              *)
(*   opt     for each name n, the entry at prefix/opt/<n>                  *)
(* and the database by its three tables: installed, refs (store_refs) and  *)
(* linked (linked_files).                                                  *)
(*                                                                         *)
(* select_bottle (zb_core/src/bottle.rs) and the cellar over whole file    *)
(* trees (modes, data, symlink targets, hard links) are examined on their  *)
(* own in SpecBottle and SpecCellar; probe holds the arguments, the trees  *)
(* and the return value of the call examined there.                        *)
(***************************************************************************)
EXTENDS Integers, Sequences, FiniteSets, TLC

\* Highest version of a formula the index ever serves.
MaxVer == 2
\* Cap on a store_refs.refcount: installs that would exceed it are not explored.
MaxRef == 2
\* Cap on the number of injected faults (I/O errors, database errors, bad
\* downloads) in one behaviour; link conflicts are not injected and not capped.
MaxFaults == 1

----------------------------------------------------------------------------
(* The package index.                                                      *)

Names == {"a", "b", "c"}
\* Lexicographic order of the package names.
NameOrder == <<"a", "b", "c">>
\* The indexes explored: in "dep" the index serves a and b, and a depends on
\* b; in "shared" it serves a and c, which both ship an executable named t.
Worlds == {"dep", "shared"}
\* The indexes plan is explored against: they serve a, b and c. In "chain" a
\* depends on b and b on c; in "fork" a depends on c and b (in this order) and
\* b on c; in "cycle" a depends on b and b on a; in "legacy" a depends on b,
\* which has no bottle for the platform.
PlanWorlds == {"chain", "fork", "cycle", "legacy"}
Versions == 1..MaxVer
\* The entries of <keg>/bin of a fully materialized keg of n.
BinOf(n) ==
    CASE n = "a" -> {"x", "t"}
      [] n = "b" -> {"u"}
      [] n = "c" -> {"t"}
Exes == {"x", "t", "u"}
Kegs == Names \X Versions
Keys == Names \X Versions

----------------------------------------------------------------------------
(* Entries of prefix/bin and prefix/opt.                                   *)

NoEntry  == [kind |-> "none", name |-> "", ver |-> 0]
RealFile == [kind |-> "file", name |-> "", ver |-> 0]
\* A symlink into the keg <<n, v>>: prefix/bin/<e> -> cellar/n/v/bin/<e>,
\* prefix/opt/<n> -> cellar/n/v.
Link(n, v) == [kind |-> "link", name |-> n, ver |-> v]
\* A symlink whose target never exists.
Dangling == [kind |-> "link", name |-> "gone", ver |-> 0]
\* The entry of <keg>/bin of n that a symlink made by hand under another
\* basename points at.
AliasedFile(n) ==
    CASE n = "a" -> "x"
      [] n = "b" -> "u"
      [] n = "c" -> "t"
\* A symlink made by hand: prefix/bin/<e> -> cellar/n/v/bin/AliasedFile(n),
\* with e another basename than AliasedFile(n).
Alias(n, v) == [kind |-> "alias", name |-> n, ver |-> v]

VARIABLES
    world,      \* which index the behaviour runs against
    index,      \* index[n]: the version the index serves for n
    cache,      \* blobs
    store,      \* store entries
    cellar,     \* cellar[<<n, v>>] \in {"absent", "partial", "full"}
    bin,        \* bin[e]: entry at prefix/bin/e
    opt,        \* opt[n]: entry at prefix/opt/n
    installed,  \* table installed: name -> [version, store_key]
    refs,       \* table store_refs: store_key -> refcount
    linked,     \* table linked_files: rows [name, link, target]
    run,        \* the execute in progress: [active, plan, i, link, name]
    last,       \* the last call and its outcome: [op, name, link, res, removed]
    faults,     \* the number of faults injected so far
    probe       \* the last call of a function checked on its own: its
                \* arguments and what it returned

vars == <<world, index, cache, store, cellar, bin, opt, installed, refs, linked, run, last,
          faults, probe>>

\* The state the operations transform.
Cur ==
    [cache |-> cache, store |-> store, cellar |-> cellar, bin |-> bin, opt |-> opt,
     installed |-> installed, refs |-> refs, linked |-> linked]

Set(st) ==
    /\ cache' = st.cache
    /\ store' = st.store
    /\ cellar' = st.cellar
    /\ bin' = st.bin
    /\ opt' = st.opt
    /\ installed' = st.installed
    /\ refs' = st.refs
    /\ linked' = st.linked

NoPlan == [res |-> "none", formulas |-> <<>>, bottles |-> <<>>]
NoProbe == [op |-> "none"]
Idle == [active |-> FALSE, plan |-> NoPlan, i |-> 0, link |-> FALSE, name |-> ""]

\* What the last call was and what it returned.
Outcome(op, name, link, res, removed) ==
    [op |-> op, name |-> name, link |-> link, res |-> res, removed |-> removed]

\* The formulas the index serves.
Served ==
    CASE world = "dep" -> {"a", "b"}
      [] world = "shared" -> {"a", "c"}
      [] OTHER -> Names
\* Formula.dependencies
Dependencies(n) ==
    CASE world = "dep" /\ n = "a" -> <<"b">>
      [] world = "chain" /\ n = "a" -> <<"b">>
      [] world = "chain" /\ n = "b" -> <<"c">>
      [] world = "fork" /\ n = "a" -> <<"c", "b">>
      [] world = "fork" /\ n = "b" -> <<"c">>
      [] world = "cycle" /\ n = "a" -> <<"b">>
      [] world = "cycle" /\ n = "b" -> <<"a">>
      [] world = "legacy" /\ n = "a" -> <<"b">>
      [] OTHER -> <<>>
\* Formulas whose version the index may bump.
Upgradable == {"c"}

----------------------------------------------------------------------------
(* Installer::plan.                                                        *)

Last(s) == s[Len(s)]
Front(s) == SubSeq(s, 1, Len(s) - 1)

RECURSIVE PushDeps(_, _, _, _)
\* for dep in &formula.dependencies { if !formulas.contains_key(dep) { push } }
PushDeps(to_fetch, deps, k, formulas) ==
    IF k > Len(deps) THEN to_fetch
    ELSE PushDeps(IF deps[k] \in formulas THEN to_fetch ELSE Append(to_fetch, deps[k]),
                  deps, k + 1, formulas)

RECURSIVE FetchLoop(_, _)
\* while let Some(fetch_name) = to_fetch.pop() { ... }
FetchLoop(formulas, to_fetch) ==
    IF to_fetch = <<>> THEN formulas
    ELSE LET fetch_name == Last(to_fetch)
             rest == Front(to_fetch)
         IN IF fetch_name \in formulas
            THEN FetchLoop(formulas, rest)
            ELSE FetchLoop(formulas \cup {fetch_name},
                           PushDeps(rest, Dependencies(fetch_name), 1, formulas))

\* The names of the formulas fetch_all_formulas returns.
FetchAllFormulas(name) == FetchLoop({}, <<name>>)

Range(s) == {s[k] : k \in 1..Len(s)}

\* The first name, in lexicographic order, of a non-empty set of names.
MinName(S) == NameOrder[CHOOSE k \in 1..Len(NameOrder) :
                  /\ NameOrder[k] \in S
                  /\ \A j \in 1..(k - 1) : NameOrder[j] \notin S]

RECURSIVE TopoSort(_, _)
\* Emit a node once all its dependencies are emitted, lexicographically first.
TopoSort(remaining, emitted) ==
    IF remaining = {} THEN [ok |-> TRUE, order |-> emitted]
    ELSE LET ready == {n \in remaining :
                          \A d \in Range(Dependencies(n)) : d \in Range(emitted)}
         IN IF ready = {} THEN [ok |-> FALSE, order |-> emitted]
            ELSE TopoSort(remaining \ {MinName(ready)},
                          Append(emitted, MinName(ready)))

ResolveClosure(name, formulas) == TopoSort(formulas, <<>>)

\* A bottle tag is the sequence of its pieces: "arm64_sonoma" is
\* <<"arm64", "_", "sonoma">>.
Arm64Prefix == <<"arm64", "_">>
\* tag.starts_with(prefix)
StartsWith(tag, prefix) ==
    Len(tag) >= Len(prefix) /\ SubSeq(tag, 1, Len(prefix)) = prefix
\* Formula.bottle.stable.files as the BTreeMap iterates it (sorted by tag);
\* the sha256 of the bottle of n at version v is <<n, v>>. In "legacy" the
\* formula b has no bottle for the platform.
Files(n, v) ==
    IF world = "legacy" /\ n = "b"
    THEN << [tag |-> <<"all">>, sha256 |-> <<n, v>>],
            [tag |-> <<"arm64">>, sha256 |-> <<n, v>>],
            [tag |-> <<"x86_64", "_", "sonoma">>, sha256 |-> <<n, v>>] >>
    ELSE << [tag |-> <<"arm64", "_", "sonoma">>, sha256 |-> <<n, v>>],
            [tag |-> <<"x86_64", "_", "sonoma">>, sha256 |-> <<n, v>>] >>

RECURSIVE FirstArm64(_, _)
\* for (tag, file) in &files { if tag.starts_with("arm64_") { return Ok(..) } }
FirstArm64(files, k) ==
    IF k > Len(files) THEN 0
    ELSE IF StartsWith(files[k].tag, Arm64Prefix) THEN k
    ELSE FirstArm64(files, k + 1)

\* select_bottle that keeps looking after a match and returns the last
\* arm64_ entry of the map.
SelectLastBottleOf(files) ==
    LET hits == {k \in 1..Len(files) : StartsWith(files[k].tag, Arm64Prefix)}
        k == IF hits = {} THEN 0 ELSE CHOOSE j \in hits : \A i \in hits : i <= j
    IN IF k = 0 THEN [ok |-> FALSE, tag |-> <<>>, sha256 |-> <<>>]
       ELSE [ok |-> TRUE, tag |-> files[k].tag, sha256 |-> files[k].sha256]

\* select_bottle on a formula with these bottle files: [ok, tag, sha256];
\* ok = FALSE is Error::UnsupportedBottle.
SelectBottleOf(files) ==
    LET k == FirstArm64(files, 1)
    IN IF k = 0 THEN [ok |-> FALSE, tag |-> <<>>, sha256 |-> <<>>]
       ELSE [ok |-> TRUE, tag |-> files[k].tag, sha256 |-> files[k].sha256]

\* select_bottle of the formula of n at version v.
SelectBottle(n, v) == SelectBottleOf(Files(n, v))

\* plan without resolve_closure: the formulas in the order of the BTreeMap
\* that fetch_all_formulas returns (sorted by name), cycles undetected.
PlanInMapOrder(idx, name) ==
    LET order == SelectSeq(NameOrder, LAMBDA n : n \in FetchAllFormulas(name))
    IN [res |-> "ok",
        formulas |-> [k \in 1..Len(order) |-> [name |-> order[k], version |-> idx[order[k]]]],
        bottles |-> [k \in 1..Len(order) |-> SelectBottle(order[k], idx[order[k]]).sha256]]

\* plan that selects every bottle from the requested formula.
PlanOneBottle(idx, name) ==
    LET ordered == ResolveClosure(name, FetchAllFormulas(name))
    IN IF ~ordered.ok
       THEN [res |-> "CircularDependency", formulas |-> <<>>, bottles |-> <<>>]
       ELSE [res |-> "ok",
             formulas |-> [k \in 1..Len(ordered.order) |->
                              [name |-> ordered.order[k],
                               version |-> idx[ordered.order[k]]]],
             bottles |-> [k \in 1..Len(ordered.order) |->
                              SelectBottle(name, idx[name]).sha256]]

\* Installer::plan against the index idx: [res, formulas, bottles].
Plan(idx, name) ==
    LET ordered == ResolveClosure(name, FetchAllFormulas(name))
    IN IF ~ordered.ok
       THEN [res |-> "CircularDependency", formulas |-> <<>>, bottles |-> <<>>]
       ELSE IF \E k \in 1..Len(ordered.order) :
                   ~SelectBottle(ordered.order[k], idx[ordered.order[k]]).ok
       THEN [res |-> "UnsupportedBottle", formulas |-> <<>>, bottles |-> <<>>]
       ELSE [res |-> "ok",
             formulas |-> [k \in 1..Len(ordered.order) |->
                              [name |-> ordered.order[k],
                               version |-> idx[ordered.order[k]]]],
             bottles |-> [k \in 1..Len(ordered.order) |->
                              SelectBottle(ordered.order[k],
                                           idx[ordered.order[k]]).sha256]]

----------------------------------------------------------------------------
(* The cellar (zb_io/src/materialize.rs).                                  *)

\* keg_path.join("bin").exists(): the keg has a bin directory.
KegBinExists(st, keg) == st.cellar[keg] = "full" /\ BinOf(keg[1]) # {}

\* The entries read_dir(keg/bin) yields.
KegBin(st, keg) == IF KegBinExists(st, keg) THEN BinOf(keg[1]) ELSE {}

\* materialize that refuses a keg path that already exists.
MaterializeOnce(st, name, version, fails) ==
    LET keg == <<name, version>>
    IN IF st.cellar[keg] # "absent" THEN [st |-> st, ok |-> FALSE]
       ELSE IF fails
       THEN [st |-> [st EXCEPT !.cellar[keg] = "partial"], ok |-> FALSE]
       ELSE [st |-> [st EXCEPT !.cellar[keg] = "full"], ok |-> TRUE]

\* Cellar::materialize; fails = the copy of the content root stops part-way.
Materialize(st, name, version, fails) ==
    LET keg == <<name, version>>
    IN IF st.cellar[keg] # "absent"
       THEN [st |-> st, ok |-> TRUE]
       ELSE IF fails
       THEN [st |-> [st EXCEPT !.cellar[keg] = "partial"], ok |-> FALSE]
       ELSE [st |-> [st EXCEPT !.cellar[keg] = "full"], ok |-> TRUE]

\* Cellar::remove_keg
RemoveKeg(st, name, version) ==
    [st EXCEPT !.cellar[<<name, version>>] = "absent"]

----------------------------------------------------------------------------
(* The linker (zb_io/src/link.rs).                                         *)

\* fs::canonicalize of the target of the symlink l at prefix/bin/<e> succeeds.
BinTargetExists(st, l, e) ==
    /\ l.name \in Names
    /\ l.ver \in Versions
    /\ (IF l.kind = "alias" THEN AliasedFile(l.name) ELSE e)
           \in KegBin(st, <<l.name, l.ver>>)

\* fs::canonicalize of the target of the symlink l at prefix/opt/<n> succeeds.
OptTargetExists(st, l) ==
    /\ l.name \in Names
    /\ l.ver \in Versions
    /\ st.cellar[<<l.name, l.ver>>] # "absent"

\* link_opt that creates the link only where there is no entry.
LinkOptKeepsEntry(st, keg) ==
    IF st.opt[keg[1]].kind = "none"
    THEN [st EXCEPT !.opt[keg[1]] = Link(keg[1], keg[2])]
    ELSE st

\* link_opt that removes the link when it already points at the keg.
LinkOptToggles(st, keg) ==
    IF st.opt[keg[1]] = Link(keg[1], keg[2])
    THEN [st EXCEPT !.opt[keg[1]] = NoEntry]
    ELSE [st EXCEPT !.opt[keg[1]] = Link(keg[1], keg[2])]

\* Linker::link_opt
LinkOpt(st, keg) ==
    LET cur == st.opt[keg[1]]
    IN IF /\ cur.kind = "link"
          /\ OptTargetExists(st, cur)
          /\ cur = Link(keg[1], keg[2])
       THEN st
       ELSE [st EXCEPT !.opt[keg[1]] = Link(keg[1], keg[2])]

\* Linker::unlink_opt
UnlinkOpt(st, keg) ==
    LET cur == st.opt[keg[1]]
    IN IF /\ cur.kind = "link"
          /\ OptTargetExists(st, cur)
          /\ cur = Link(keg[1], keg[2])
       THEN [st EXCEPT !.opt[keg[1]] = NoEntry]
       ELSE st

LinkedFile(keg, e) == [link |-> e, target |-> <<keg[1], keg[2], e>>]

RECURSIVE LinkEntries(_, _, _, _, _)
\* The loop of link_keg over read_dir(keg/bin), which yields the entries in
\* the order `order`: [st, ok, linked, path]; path is the link path that
\* Error::LinkConflict names.
LinkEntries(st, keg, order, k, acc) ==
    IF k > Len(order) THEN [st |-> st, ok |-> TRUE, linked |-> acc, path |-> ""]
    ELSE LET e == order[k]
             cur == st.bin[e]
             created == [st EXCEPT !.bin[e] = Link(keg[1], keg[2])]
         IN IF cur.kind = "none"
            THEN LinkEntries(created, keg, order, k + 1, Append(acc, LinkedFile(keg, e)))
            ELSE IF cur.kind = "file"
            THEN [st |-> st, ok |-> FALSE, linked |-> acc, path |-> e]
            ELSE IF BinTargetExists(st, cur, e) /\ cur = Link(keg[1], keg[2])
            THEN LinkEntries(st, keg, order, k + 1, Append(acc, LinkedFile(keg, e)))
            ELSE IF ~BinTargetExists(st, cur, e)
            THEN LinkEntries(created, keg, order, k + 1, Append(acc, LinkedFile(keg, e)))
            ELSE [st |-> st, ok |-> FALSE, linked |-> acc, path |-> e]

\* link_keg that overwrites whatever is at the link paths.
LinkKegOverwrites(st, keg, order) ==
    LET s1 == LinkOpt(st, keg)
    IN [st |-> [s1 EXCEPT !.bin = [e \in Exes |->
                    IF e \in KegBin(s1, keg) THEN Link(keg[1], keg[2]) ELSE s1.bin[e]]],
        ok |-> TRUE,
        linked |-> [k \in 1..Len(order) |-> LinkedFile(keg, order[k])],
        path |-> ""]

\* link_keg that reports every entry at a link path that is not its own
\* link as a conflict, broken symlinks included.
LinkKegStrict(st, keg, order) ==
    LET s1 == LinkOpt(st, keg)
        taken == {e \in KegBin(s1, keg) : s1.bin[e] \notin {NoEntry, Link(keg[1], keg[2])}}
    IN IF taken # {}
       THEN [st |-> s1, ok |-> FALSE, linked |-> <<>>, path |-> CHOOSE e \in taken : TRUE]
       ELSE IF ~KegBinExists(s1, keg)
       THEN [st |-> s1, ok |-> TRUE, linked |-> <<>>, path |-> ""]
       ELSE LinkEntries(s1, keg, order, 1, <<>>)

\* Linker::link_keg: [st, ok, linked, path]; ok = FALSE is
\* Error::LinkConflict { path }.
LinkKeg(st, keg, order) ==
    LET s1 == LinkOpt(st, keg)
    IN IF ~KegBinExists(s1, keg)
       THEN [st |-> s1, ok |-> TRUE, linked |-> <<>>, path |-> ""]
       ELSE LinkEntries(s1, keg, order, 1, <<>>)

\* unlink_keg that removes the symlink at every basename of keg/bin,
\* whatever it points at.
UnlinkKegAnyTarget(st, keg) ==
    LET s1 == UnlinkOpt(st, keg)
    IN [s1 EXCEPT !.bin = [e \in Exes |->
            IF e \in KegBin(s1, keg) /\ s1.bin[e].kind \in {"link", "alias"}
            THEN NoEntry
            ELSE s1.bin[e]]]

\* Linker::unlink_keg
UnlinkKeg(st, keg) ==
    LET s1 == UnlinkOpt(st, keg)
    IN [s1 EXCEPT !.bin = [e \in Exes |->
            IF /\ e \in KegBin(s1, keg)
               /\ s1.bin[e].kind = "link"
               /\ BinTargetExists(s1, s1.bin[e], e)
               /\ s1.bin[e] = Link(keg[1], keg[2])
            THEN NoEntry
            ELSE s1.bin[e]]]

\* Linker::is_linked
IsLinked(st, keg) ==
    \E e \in KegBin(st, keg) :
        /\ st.bin[e].kind = "link"
        /\ BinTargetExists(st, st.bin[e], e)
        /\ st.bin[e] = Link(keg[1], keg[2])

\* The orders in which read_dir may yield the entries of S.
Orders(S) == {o \in [1..Cardinality(S) -> S] : Range(o) = S}

----------------------------------------------------------------------------
(* The blob cache, the store and the database.                             *)

\* ParallelDownloader::download_all of the plan's bottles; failing = 0, or the
\* index of the request whose bytes do not hash to the declared sha256.
DownloadAll(st, bottles, failing) ==
    [st |-> [st EXCEPT !.cache = st.cache \cup
                {bottles[k] : k \in (1..Len(bottles)) \ {failing}}],
     ok |-> failing = 0]

\* Store::ensure_entry
EnsureEntry(st, key, fails) ==
    IF key \in st.store THEN [st |-> st, ok |-> TRUE]
    ELSE IF fails THEN [st |-> st, ok |-> FALSE]
    ELSE [st |-> [st EXCEPT !.store = st.store \cup {key}], ok |-> TRUE]

\* Store::remove_entry
RemoveEntry(st, key) == [st EXCEPT !.store = st.store \ {key}]

\* Database::get_installed(name).is_some()
IsInstalled(st, name) == name \in DOMAIN st.installed

\* InstallTransaction::record_install
RecordInstall(st, name, version, store_key) ==
    [st EXCEPT
        !.installed = [n \in DOMAIN st.installed \cup {name} |->
                          IF n = name
                          THEN [version |-> version, store_key |-> store_key]
                          ELSE st.installed[n]],
        !.refs = [k \in DOMAIN st.refs \cup {store_key} |->
                     IF k = store_key
                     THEN (IF k \in DOMAIN st.refs THEN st.refs[k] ELSE 0) + 1
                     ELSE st.refs[k]]]

\* InstallTransaction::record_linked_file
RecordLinkedFile(st, name, version, lf) ==
    [st EXCEPT !.linked =
        {r \in st.linked : ~(r.name = name /\ r.link = lf.link)}
            \cup {[name |-> name, link |-> lf.link, target |-> lf.target]}]

RECURSIVE RecordLinkedFiles(_, _, _, _, _)
\* for linked in &linked_files { tx.record_linked_file(..)? }
RecordLinkedFiles(st, name, version, lfs, k) ==
    IF k > Len(lfs) THEN st
    ELSE RecordLinkedFiles(RecordLinkedFile(st, name, version, lfs[k]),
                           name, version, lfs, k + 1)

\* InstallTransaction::record_uninstall
RecordUninstall(st, name) ==
    LET key == st.installed[name].store_key
    IN [st EXCEPT
           !.installed = [n \in DOMAIN st.installed \ {name} |-> st.installed[n]],
           !.linked = {r \in st.linked : r.name # name},
           !.refs = [k \in DOMAIN st.refs |->
                        IF k = key THEN st.refs[k] - 1 ELSE st.refs[k]]]

\* Database::get_unreferenced_store_keys
GetUnreferencedStoreKeys(st) == {k \in DOMAIN st.refs : st.refs[k] = 0}

----------------------------------------------------------------------------
(* Installer::execute, Installer::uninstall, Installer::gc.                *)

\* The faults an item of execute may meet besides a link conflict.
ItemFaults == {"none", "ensure", "materialize", "db"}
\* The faults uninstall may meet.
UninstallFaults == {"none", "db", "remove_keg"}

\* The loop body with link_keg called whatever the link argument.
ExecItemAlwaysLinks(st, formula, store_key, link, fault, order) ==
    LET keg == <<formula.name, formula.version>>
        e1 == EnsureEntry(st, store_key, fault = "ensure")
        m1 == Materialize(e1.st, formula.name, formula.version, fault = "materialize")
        l1 == LinkKeg(m1.st, keg, order)
        d1 == RecordLinkedFiles(
                  RecordInstall(l1.st, formula.name, formula.version, store_key),
                  formula.name, formula.version, l1.linked, 1)
    IN IF ~e1.ok THEN [st |-> e1.st, res |-> "StoreCorruption"]
       ELSE IF ~m1.ok THEN [st |-> m1.st, res |-> "StoreCorruption"]
       ELSE IF ~l1.ok THEN [st |-> l1.st, res |-> "LinkConflict"]
       ELSE IF fault = "db" THEN [st |-> l1.st, res |-> "DbError"]
       ELSE [st |-> d1, res |-> "ok"]

\* One iteration of the loop of execute: [st, res].
ExecItem(st, formula, store_key, link, fault, order) ==
    LET keg == <<formula.name, formula.version>>
        e1 == EnsureEntry(st, store_key, fault = "ensure")
        m1 == Materialize(e1.st, formula.name, formula.version, fault = "materialize")
        l1 == IF link THEN LinkKeg(m1.st, keg, order)
              ELSE [st |-> m1.st, ok |-> TRUE, linked |-> <<>>, path |-> ""]
        d1 == RecordLinkedFiles(
                  RecordInstall(l1.st, formula.name, formula.version, store_key),
                  formula.name, formula.version, l1.linked, 1)
    IN IF ~e1.ok THEN [st |-> e1.st, res |-> "StoreCorruption"]
       ELSE IF ~m1.ok THEN [st |-> m1.st, res |-> "StoreCorruption"]
       ELSE IF ~l1.ok THEN [st |-> l1.st, res |-> "LinkConflict"]
       ELSE IF fault = "db" THEN [st |-> l1.st, res |-> "DbError"]
       ELSE [st |-> d1, res |-> "ok"]

\* uninstall with the keg directory removed before the DB transaction: a
\* transaction that fails then leaves the installed row without its keg.
UninstallOpKegFirst(st, name, fault) ==
    IF ~IsInstalled(st, name) THEN [st |-> st, res |-> "NotInstalled"]
    ELSE LET version == st.installed[name].version
             u1 == RemoveKeg(UnlinkKeg(st, <<name, version>>), name, version)
         IN IF fault = "db" THEN [st |-> u1, res |-> "DbError"]
            ELSE [st |-> RecordUninstall(u1, name), res |-> "ok"]

\* uninstall that unlinks and removes the keg at the indexed version before
\* it looks the package up.
UninstallOpSweepsFirst(st, name, fault) ==
    LET version == IF IsInstalled(st, name) THEN st.installed[name].version
                   ELSE index[name]
        u1 == UnlinkKeg(st, <<name, version>>)
        d1 == RecordUninstall(u1, name)
    IN IF ~IsInstalled(st, name)
       THEN [st |-> RemoveKeg(u1, name, version), res |-> "NotInstalled"]
       ELSE IF fault = "db" THEN [st |-> u1, res |-> "DbError"]
       ELSE IF fault = "remove_keg" /\ d1.cellar[<<name, version>>] # "absent"
       THEN [st |-> d1, res |-> "StoreCorruption"]
       ELSE [st |-> RemoveKeg(d1, name, version), res |-> "ok"]

\* uninstall without the call of unlink_keg.
UninstallOpKeepsLinks(st, name, fault) ==
    IF ~IsInstalled(st, name) THEN [st |-> st, res |-> "NotInstalled"]
    ELSE LET version == st.installed[name].version
             d1 == RecordUninstall(st, name)
         IN IF fault = "db" THEN [st |-> st, res |-> "DbError"]
            ELSE IF fault = "remove_keg" /\ d1.cellar[<<name, version>>] # "absent"
            THEN [st |-> d1, res |-> "StoreCorruption"]
            ELSE [st |-> RemoveKeg(d1, name, version), res |-> "ok"]

\* Installer::uninstall: [st, res].
UninstallOp(st, name, fault) ==
    IF ~IsInstalled(st, name) THEN [st |-> st, res |-> "NotInstalled"]
    ELSE LET version == st.installed[name].version
             u1 == UnlinkKeg(st, <<name, version>>)
             d1 == RecordUninstall(u1, name)
         IN IF fault = "db" THEN [st |-> u1, res |-> "DbError"]
            ELSE IF fault = "remove_keg" /\ d1.cellar[<<name, version>>] # "absent"
            THEN [st |-> d1, res |-> "StoreCorruption"]
            ELSE [st |-> RemoveKeg(d1, name, version), res |-> "ok"]

RECURSIVE RemoveEntries(_, _)
\* for store_key in unreferenced { self.store.remove_entry(&store_key)? }
RemoveEntries(st, keys) ==
    IF keys = {} THEN st
    ELSE LET k == CHOOSE k \in keys : TRUE
         IN RemoveEntries(RemoveEntry(st, k), keys \ {k})

\* Installer::gc: [st, removed].
GcOp(st) ==
    LET unreferenced == GetUnreferencedStoreKeys(st)
    IN [st |-> RemoveEntries(st, unreferenced), removed |-> unreferenced]

----------------------------------------------------------------------------
(* The state machine.                                                      *)

Init ==
    /\ world \in Worlds
    /\ index = [n \in Names |-> 1]
    /\ cache = {}
    /\ store = {}
    /\ cellar = [k \in Kegs |-> "absent"]
    /\ \E pre \in {NoEntry, RealFile, Dangling} :
           bin = [e \in Exes |-> IF e = "t" THEN pre ELSE NoEntry]
    /\ opt = [n \in Names |-> NoEntry]
    /\ installed = <<>>
    /\ refs = <<>>
    /\ linked = {}
    /\ run = Idle
    /\ last = Outcome("none", "", FALSE, "ok", {})
    /\ probe = NoProbe
    /\ faults = 0

\* A step that injects a fault spends one of the MaxFaults.
Inject(faulty) ==
    IF faulty THEN faults < MaxFaults /\ faults' = faults + 1
    ELSE faults' = faults

\* No refcount the plan increments is at the cap.
BelowCap(plan) ==
    \A k \in 1..Len(plan.bottles) :
        plan.bottles[k] \in DOMAIN refs => refs[plan.bottles[k]] < MaxRef

\* install that goes on to the loop of execute when a download has failed.
StartInstallDespiteFailure(name, link, failing) ==
    /\ ~run.active
    /\ LET plan == Plan(index, name)
           dl == DownloadAll(Cur, plan.bottles, failing)
       IN /\ BelowCap(plan)
          /\ failing \in 0..Len(plan.bottles)
          /\ failing # 0 => plan.bottles[failing] \notin cache
          /\ IF plan.res # "ok"
             THEN /\ last' = Outcome("install", name, link, plan.res, {})
                  /\ failing = 0
                  /\ UNCHANGED <<cache, store, cellar, bin, opt, installed, refs,
                                 linked, run>>
             ELSE /\ Set(dl.st)
                  /\ run' = [active |-> TRUE, plan |-> plan, i |-> 1,
                             link |-> link, name |-> name]
                  /\ last' = Outcome("install", name, link, "running", {})
    /\ Inject(failing # 0)
    /\ UNCHANGED <<probe, world, index>>

\* install(name, link) up to the end of download_all.
StartInstall(name, link, failing) ==
    /\ ~run.active
    /\ LET plan == Plan(index, name)
           dl == DownloadAll(Cur, plan.bottles, failing)
       IN /\ BelowCap(plan)
          /\ failing \in 0..Len(plan.bottles)
          /\ failing # 0 => plan.bottles[failing] \notin cache
          /\ IF plan.res # "ok"
             THEN /\ last' = Outcome("install", name, link, plan.res, {})
                  /\ failing = 0
                  /\ UNCHANGED <<cache, store, cellar, bin, opt, installed, refs,
                                 linked, run>>
             ELSE /\ Set(dl.st)
                  /\ IF dl.ok
                     THEN /\ run' = [active |-> TRUE, plan |-> plan, i |-> 1,
                                     link |-> link, name |-> name]
                          /\ last' = Outcome("install", name, link, "running", {})
                     ELSE /\ run' = Idle
                          /\ last' = Outcome("install", name, link, "ChecksumMismatch", {})
    /\ Inject(failing # 0)
    /\ UNCHANGED <<probe, world, index>>

\* The loop of execute going on with the next item after an item has failed.
ExecStepKeepsGoing(fault, order) ==
    /\ run.active
    /\ LET formula == run.plan.formulas[run.i]
           r == ExecItem(Cur, formula, run.plan.bottles[run.i], run.link, fault, order)
       IN /\ order \in Orders(BinOf(formula.name))
          /\ Set(r.st)
          /\ IF run.i < Len(run.plan.formulas)
             THEN /\ run' = [run EXCEPT !.i = run.i + 1]
                  /\ UNCHANGED last
             ELSE /\ run' = Idle
                  /\ last' = Outcome("install", run.name, run.link, r.res, {})
    /\ Inject(fault # "none")
    /\ UNCHANGED <<probe, world, index>>

\* One iteration of the loop of execute.
ExecStep(fault, order) ==
    /\ run.active
    /\ LET formula == run.plan.formulas[run.i]
           r == ExecItem(Cur, formula, run.plan.bottles[run.i], run.link, fault, order)
       IN /\ order \in Orders(BinOf(formula.name))
          /\ Set(r.st)
          /\ IF r.res = "ok" /\ run.i < Len(run.plan.formulas)
             THEN /\ run' = [run EXCEPT !.i = run.i + 1]
                  /\ UNCHANGED last
             ELSE /\ run' = Idle
                  /\ last' = Outcome("install", run.name, run.link, r.res, {})
    /\ Inject(fault # "none")
    /\ UNCHANGED <<probe, world, index>>

\* uninstall(name); the outcome records whether the keg was linked at the call.
Uninstall(name, fault) ==
    /\ ~run.active
    /\ LET r == UninstallOp(Cur, name, fault)
           was_linked == /\ name \in DOMAIN installed
                         /\ \E e \in Exes : bin[e] = Link(name, installed[name].version)
       IN /\ Set(r.st)
          /\ last' = Outcome("uninstall", name, was_linked, r.res, {})
    /\ Inject(fault # "none")
    /\ UNCHANGED <<probe, world, index, run>>

Gc ==
    /\ ~run.active
    /\ LET r == GcOp(Cur)
       IN /\ Set(r.st)
          /\ last' = Outcome("gc", "", FALSE, "ok", r.removed)
    /\ UNCHANGED <<probe, world, index, run, faults>>

\* The index starts serving the next version of a formula.
IndexUpdate(name) ==
    /\ ~run.active
    /\ name \in Upgradable
    /\ index[name] < MaxVer
    /\ index' = [index EXCEPT ![name] = index[name] + 1]
    /\ UNCHANGED <<probe, world, cache, store, cellar, bin, opt, installed, refs, linked, run,
                   last,
                   faults>>

\* The user removes a regular file of theirs from prefix/bin.
RemoveFile(e) ==
    /\ ~run.active
    /\ bin[e] = RealFile
    /\ bin' = [bin EXCEPT ![e] = NoEntry]
    /\ UNCHANGED <<probe, world, index, cache, store, cellar, opt, installed, refs, linked, run,
                   last,
                   faults>>

AllOrders == UNION {Orders(BinOf(n)) : n \in Names}

Next ==
    \/ \E name \in Served, link \in BOOLEAN, failing \in 0..2 :
           StartInstall(name, link, failing)
    \/ \E fault \in ItemFaults, order \in AllOrders : ExecStep(fault, order)
    \/ \E name \in Served, fault \in UninstallFaults : Uninstall(name, fault)
    \/ Gc
    \/ \E e \in Exes : RemoveFile(e)

Spec == Init /\ [][Next]_vars

\* The same machine over an index that changes between calls.
NextUpgrade ==
    \/ Next
    \/ \E name \in Names : IndexUpdate(name)

SpecUpgrade == Init /\ [][NextUpgrade]_vars

\* The same machine over the indexes of PlanWorlds, with no fault left to
\* inject.
InitPlan ==
    /\ world \in PlanWorlds
    /\ index = [n \in Names |-> 1]
    /\ cache = {}
    /\ store = {}
    /\ cellar = [k \in Kegs |-> "absent"]
    /\ \E pre \in {NoEntry, RealFile} :
           bin = [e \in Exes |-> IF e = "u" THEN pre ELSE NoEntry]
    /\ opt = [n \in Names |-> NoEntry]
    /\ installed = <<>>
    /\ refs = <<>>
    /\ linked = {}
    /\ run = Idle
    /\ last = Outcome("none", "", FALSE, "ok", {})
    /\ probe = NoProbe
    /\ faults = MaxFaults

SpecPlan == InitPlan /\ [][Next]_vars

----------------------------------------------------------------------------
(* The linker called on its own, over prefixes that already hold entries   *)
(* made by hand.                                                           *)

\* The kegs the linker is called on.
LinkerKegs == {<<"a", 1>>, <<"c", 1>>, <<"c", MaxVer>>}

InitLinker ==
    /\ world = "shared"
    /\ index = [n \in Names |-> 1]
    /\ cache = {}
    /\ store = {}
    /\ \E a1 \in {"partial", "full"} :
           cellar = [k \in Kegs |-> IF k = <<"a", 1>> THEN a1
                                    ELSE IF k \in LinkerKegs THEN "full"
                                    ELSE "absent"]
    /\ \E pre \in {NoEntry, RealFile, Dangling, Alias("a", 1)} :
           bin = [e \in Exes |-> IF e = "t" THEN pre ELSE NoEntry]
    /\ \E pre \in {NoEntry, RealFile} :
           opt = [n \in Names |-> IF n = "a" THEN pre ELSE NoEntry]
    /\ installed = <<>>
    /\ refs = <<>>
    /\ linked = {}
    /\ run = Idle
    /\ last = Outcome("none", "", FALSE, "ok", {})
    /\ probe = NoProbe
    /\ faults = 0

\* What the last call of the linker was, on which keg, what it returned and
\* the prefix and cellar it was called on.
Called(op, keg, res, ret, path) ==
    [op |-> op, name |-> keg[1], ver |-> keg[2], link |-> TRUE, res |-> res,
     removed |-> {}, ret |-> ret, path |-> path,
     bin |-> bin, opt |-> opt, cellar |-> cellar]

\* Linker::link_keg(cellar/<keg>)
LinkKegCall(keg, order) ==
    /\ order \in Orders(BinOf(keg[1]))
    /\ LET r == LinkKeg(Cur, keg, order)
       IN /\ Set(r.st)
          /\ last' = Called("link_keg", keg, IF r.ok THEN "ok" ELSE "LinkConflict",
                            Range(r.linked), r.path)
    /\ UNCHANGED <<probe, world, index, run, faults>>

\* Linker::unlink_keg(cellar/<keg>); ret is the list of paths it returns.
UnlinkKegCall(keg) ==
    /\ LET st == UnlinkKeg(Cur, keg)
       IN /\ Set(st)
          /\ last' = Called("unlink_keg", keg, "ok",
                            {e \in Exes : st.bin[e] # bin[e]}, "")
    /\ UNCHANGED <<probe, world, index, run, faults>>

\* Cellar::remove_keg(name, version)
RemoveKegCall(keg) ==
    /\ cellar[keg] # "absent"
    /\ Set(RemoveKeg(Cur, keg[1], keg[2]))
    /\ last' = Called("remove_keg", keg, "ok", {}, "")
    /\ UNCHANGED <<probe, world, index, run, faults>>

NextLinker ==
    \/ \E keg \in LinkerKegs, order \in AllOrders : LinkKegCall(keg, order)
    \/ \E keg \in LinkerKegs : UnlinkKegCall(keg)
    \/ \E keg \in LinkerKegs : RemoveKegCall(keg)

SpecLinker == InitLinker /\ [][NextLinker]_vars

----------------------------------------------------------------------------
(* Whole calls as functions of the state, for the laws about sequences of  *)
(* calls.                                                                  *)

\* For each formula, one order in which read_dir yields its keg's bin entries.
OrderMaps == {ord \in [Names -> AllOrders] : \A n \in Names : ord[n] \in Orders(BinOf(n))}

RECURSIVE ExecuteFrom(_, _, _, _, _)
\* The loop of execute from item i on, with no injected fault: [st, res].
ExecuteFrom(st, plan, i, link, ord) ==
    IF i > Len(plan.formulas) THEN [st |-> st, res |-> "ok"]
    ELSE LET r == ExecItem(st, plan.formulas[i], plan.bottles[i], link, "none",
                           ord[plan.formulas[i].name])
         IN IF r.res # "ok" THEN r
            ELSE ExecuteFrom(r.st, plan, i + 1, link, ord)

\* Installer::install with no injected fault: [st, res].
InstallOp(st, name, link, ord) ==
    LET plan == Plan(index, name)
    IN IF plan.res # "ok" THEN [st |-> st, res |-> plan.res]
       ELSE ExecuteFrom(DownloadAll(st, plan.bottles, 0).st, plan, 1, link, ord)

----------------------------------------------------------------------------
(* The claims.                                                             *)

\* The number of installed rows whose store_key is k.
InstalledRows(k) == Cardinality({n \in DOMAIN installed : installed[n].store_key = k})

\* C1: at every quiescent state every store_refs.refcount is >= 0 and equals
\* the number of installed rows with that store_key (and every installed row's
\* store_key has a store_refs row), so sum(refcount) = count(installed).
C1_RefcountEqualsInstalledRows ==
    ~run.active =>
        /\ \A k \in DOMAIN refs : refs[k] >= 0 /\ refs[k] = InstalledRows(k)
        /\ \A n \in DOMAIN installed : installed[n].store_key \in DOMAIN refs

\* C2: install(x) followed by install(x) is a no-op on the second call: right
\* after a successful install(x), installing x again succeeds and leaves the
\* installed rows, store refcounts, linked_files rows, kegs, symlinks, store
\* and cache exactly as they are.
C2_SecondInstallIsNoOp ==
    (~run.active /\ last.op = "install" /\ last.res = "ok") =>
        \A ord \in OrderMaps :
            LET r == InstallOp(Cur, last.name, last.link, ord)
            IN r.res = "ok" /\ r.st = Cur

\* The filesystem of a state: cache, store, cellar, prefix/bin, prefix/opt.
FileSystem(st) ==
    [cache |-> st.cache, store |-> st.store, cellar |-> st.cellar,
     bin |-> st.bin, opt |-> st.opt]

\* C3: for any package x that is not installed, install(x); uninstall(x); gc()
\* returns the filesystem (cache, store, cellar, prefix/bin, prefix/opt) to its
\* pre-install state, the cache blob of every removed store entry included.
C3_InstallUninstallGcRestoresFilesystem ==
    ~run.active =>
        \A x \in Served, link \in BOOLEAN, ord \in OrderMaps :
            LET r1 == InstallOp(Cur, x, link, ord)
                r2 == UninstallOp(r1.st, x, "none")
                r3 == GcOp(r2.st)
            IN (~IsInstalled(Cur, x) /\ r1.res = "ok") =>
                   /\ r2.res = "ok"
                   /\ FileSystem(r3.st) = FileSystem(Cur)

\* C4: after any sequence of install, uninstall and gc calls, calls that fail
\* part-way included, every installed record has an existing keg directory
\* cellar/<name>/<version>/.
C4_InstalledRecordHasKeg ==
    \A n \in DOMAIN installed : cellar[<<n, installed[n].version>>] # "absent"

\* A call has failed part-way and an installed record is still there.
C4_Witness ==
    /\ ~run.active
    /\ faults > 0
    /\ last.res \in {"StoreCorruption", "DbError"}
    /\ DOMAIN installed # {}

\* C5: at every quiescent state, for every linked_files row (name, link,
\* target) a symlink exists at link and canonicalizes to target.
C5_LinkedRowHasSymlink ==
    ~run.active =>
        \A r \in linked :
            /\ bin[r.link].kind = "link"
            /\ BinTargetExists(Cur, bin[r.link], r.link)
            /\ <<bin[r.link].name, bin[r.link].ver, r.link>> = r.target

\* C6: after any sequence of installs and uninstalls every link recorded in
\* the DB is owned by exactly one keg: no two installed kegs have a
\* linked_files row with the same link_path.
C6_LinkOwnedByOneKeg ==
    \A r1, r2 \in linked :
        (/\ r1.link = r2.link
         /\ r1.name \in DOMAIN installed
         /\ r2.name \in DOMAIN installed) => r1.name = r2.name

\* Every store entry is referenced by at least one installed record.
AllStoreEntriesReferenced == \A k \in store : InstalledRows(k) >= 1

\* C7: gc() never removes a store entry that is referenced by at least one
\* installed record: when every store entry is referenced, gc() returns an
\* empty list and all store directories still exist.
C7_GcKeepsReferencedEntries ==
    [][Gc =>
        /\ \A k \in store : InstalledRows(k) >= 1 => k \in store'
        /\ AllStoreEntriesReferenced => (last'.removed = {} /\ store' = store)]_vars

\* C8: every entry in store/ is either referenced by at least one installed
\* record or removed by the next gc(): gc() deletes the directory of every
\* store entry that no installed record references, and returns its key.
C8_GcRemovesUnreferencedEntries ==
    [][Gc =>
        \A k \in store :
            InstalledRows(k) >= 1 \/ (k \notin store' /\ k \in last'.removed)]_vars

\* The step is an iteration of execute that returns an error.
ItemFails == run.active /\ ~run'.active /\ last'.res # "ok"
\* The formula of the item the loop of execute is at.
CurrentItem == run.plan.formulas[run.i]

\* C9: the DB transaction is the commit point of each item of execute: if a
\* step fails for an item, that item has no installed row and no linked_files
\* rows afterwards, while the items committed earlier in the same plan remain
\* installed.
C9_FailedItemHasNoRecord ==
    [][ItemFails =>
        /\ CurrentItem.name \notin DOMAIN installed'
        /\ \A r \in linked' : r.name # CurrentItem.name
        /\ \A j \in 1..(run.i - 1) :
               run.plan.formulas[j].name \in DOMAIN installed']_vars

\* C10: when execute fails for an item, the item's partial filesystem state
\* is cleaned up before execute returns: a keg this item materialized is
\* removed, and no link this item created (under prefix/bin or prefix/opt)
\* is left.
C10_FailedItemIsCleanedUp ==
    [][ItemFails =>
        LET n == CurrentItem.name
            keg == <<n, CurrentItem.version>>
        IN /\ cellar[keg] = "absent" => cellar'[keg] = "absent"
           /\ \A e \in Exes : bin[e] # Link(n, keg[2]) => bin'[e] # Link(n, keg[2])
           /\ opt[n] # Link(n, keg[2]) => opt'[n] # Link(n, keg[2])]_vars

----------------------------------------------------------------------------
(* The claims about the linker, over SpecLinker.                           *)

\* link_keg(keg) reading keg/bin in the order `order`, on the current state.
LinkNow(keg, order) == LinkKeg(Cur, keg, order)

\* The entry l at prefix/bin/<e> is a symlink whose target exists.
ResolvingLink(st, l, e) == l.kind \in {"link", "alias"} /\ BinTargetExists(st, l, e)
\* The entry l at prefix/bin/<e> is a symlink whose target does not exist.
DanglingLink(st, l, e) == l.kind \in {"link", "alias"} /\ ~BinTargetExists(st, l, e)
\* prefix/bin/<e> holds a real file or a symlink that resolves to another
\* target than keg/bin/<e>.
Conflicting(st, keg, e) ==
    \/ st.bin[e].kind = "file"
    \/ ResolvingLink(st, st.bin[e], e) /\ st.bin[e] # Link(keg[1], keg[2])

\* C11: link_keg is atomic with respect to conflicts: when it returns
\* LinkConflict, no symlink this call created for the keg (under prefix/bin
\* or at prefix/opt/<name>) is left, and the keg is still in the cellar.
C11_LinkKegRollsBack ==
    \A keg \in LinkerKegs : \A order \in Orders(BinOf(keg[1])) :
        LET r == LinkNow(keg, order)
        IN ~r.ok =>
            /\ \A e \in Exes :
                   r.st.bin[e] = Link(keg[1], keg[2]) => bin[e] = Link(keg[1], keg[2])
            /\ r.st.opt[keg[1]] = Link(keg[1], keg[2]) => opt[keg[1]] = Link(keg[1], keg[2])
            /\ r.st.cellar = cellar

\* C12: link_keg fails with LinkConflict, naming a conflicting path, whenever
\* prefix/bin/<e> for an entry e of keg/bin holds a real file or a symlink
\* that resolves to a different existing target, and it leaves every such
\* entry unchanged.
C12_ConflictIsReported ==
    \A keg \in LinkerKegs : \A order \in Orders(BinOf(keg[1])) :
        LET r == LinkNow(keg, order)
        IN (\E e \in KegBin(Cur, keg) : Conflicting(Cur, keg, e)) =>
            /\ ~r.ok
            /\ r.path \in KegBin(Cur, keg)
            /\ Conflicting(Cur, keg, r.path)
            /\ \A e \in KegBin(Cur, keg) :
                   Conflicting(Cur, keg, e) => r.st.bin[e] = bin[e]

\* link_keg has just returned LinkConflict for a path that held a real file
\* or a symlink into another keg, and the entry is still there.
C12_Witness ==
    /\ last.op = "link_keg"
    /\ last.res = "LinkConflict"
    /\ last.bin[last.path].kind \in {"file", "link", "alias"}
    /\ bin[last.path] = last.bin[last.path]

\* C13: after a successful link_keg(keg), for every entry e of keg/bin
\* prefix/bin/<e> is a symlink to keg/bin/<e>, prefix/opt/<name> points at the
\* keg, and the returned list has exactly one LinkedFile per entry of keg/bin
\* (it is empty when the keg has no bin directory).
C13_LinkKegLinksEveryEntry ==
    \A keg \in LinkerKegs : \A order \in Orders(BinOf(keg[1])) :
        LET r == LinkNow(keg, order)
        IN r.ok =>
            /\ \A e \in KegBin(Cur, keg) : r.st.bin[e] = Link(keg[1], keg[2])
            /\ r.st.opt[keg[1]] = Link(keg[1], keg[2])
            /\ Len(r.linked) = Cardinality(KegBin(Cur, keg))
            /\ Range(r.linked) = {LinkedFile(keg, e) : e \in KegBin(Cur, keg)}

\* link_keg has just succeeded on a keg with two executables, none of which
\* was linked before.
C13_Witness ==
    /\ last.op = "link_keg"
    /\ last.res = "ok"
    /\ last.name = "a"
    /\ last.bin["x"] = NoEntry
    /\ last.bin["t"] = NoEntry
    /\ bin["x"] = Link("a", last.ver)
    /\ bin["t"] = Link("a", last.ver)
    /\ opt["a"] = Link("a", last.ver)
    /\ Cardinality(last.ret) = 2

\* C14: a dangling symlink at a candidate link path prefix/bin/<e> is never
\* treated as a conflict: LinkConflict never names it, and a link_keg that
\* succeeds has replaced it by a symlink to keg/bin/<e> and reports the link
\* in its result.
C14_DanglingLinkIsReplaced ==
    \A keg \in LinkerKegs : \A order \in Orders(BinOf(keg[1])) :
        LET r == LinkNow(keg, order)
        IN \A e \in KegBin(Cur, keg) :
               DanglingLink(Cur, bin[e], e) =>
                   /\ r.path # e
                   /\ r.st.bin[e] \in {bin[e], Link(keg[1], keg[2])}
                   /\ r.st.bin[e] = Link(keg[1], keg[2])
                          <=> LinkedFile(keg, e) \in Range(r.linked)
                   /\ r.ok => r.st.bin[e] = Link(keg[1], keg[2])

\* link_keg has just replaced a dangling symlink by a link into the keg.
C14_Witness ==
    /\ last.op = "link_keg"
    /\ last.res = "ok"
    /\ \E e \in Exes :
           /\ DanglingLink([bin |-> last.bin, cellar |-> last.cellar], last.bin[e], e)
           /\ bin[e] = Link(last.name, last.ver)
           /\ LinkedFile(<<last.name, last.ver>>, e) \in last.ret

\* C15: link_keg is idempotent: after a successful link_keg(keg), a second
\* link_keg(keg) succeeds, returns the same set of linked files and changes
\* no entry of prefix/bin or prefix/opt.
C15_LinkKegIsIdempotent ==
    \A keg \in LinkerKegs : \A o1, o2 \in Orders(BinOf(keg[1])) :
        LET r1 == LinkNow(keg, o1)
            r2 == LinkKeg(r1.st, keg, o2)
        IN r1.ok =>
            /\ r2.ok
            /\ Range(r2.linked) = Range(r1.linked)
            /\ r2.st.bin = r1.st.bin
            /\ r2.st.opt = r1.st.opt

\* link_keg has just been called on a keg that was already linked.
C15_Witness ==
    /\ last.op = "link_keg"
    /\ last.res = "ok"
    /\ last.ret # {}
    /\ \A lf \in last.ret : last.bin[lf.link] = Link(last.name, last.ver)
    /\ last.opt[last.name] = Link(last.name, last.ver)
    /\ bin = last.bin
    /\ opt = last.opt

\* C16: link_keg creates prefix/opt/<name> pointing at the keg; an entry
\* already at prefix/opt/<name> that is a real file or a symlink to another
\* existing keg (another version) is reported as a conflict and left as it
\* was.
C16_OptConflictIsReported ==
    \A keg \in LinkerKegs : \A order \in Orders(BinOf(keg[1])) :
        LET r == LinkNow(keg, order)
            cur == opt[keg[1]]
        IN IF \/ cur.kind = "file"
              \/ cur.kind = "link" /\ OptTargetExists(Cur, cur) /\ cur # Link(keg[1], keg[2])
           THEN ~r.ok /\ r.st.opt[keg[1]] = cur
           ELSE r.ok => r.st.opt[keg[1]] = Link(keg[1], keg[2])

\* The symlink l at prefix/bin/<e> resolves to a file within keg/bin.
TargetWithinKegBin(st, keg, l, e) ==
    ResolvingLink(st, l, e) /\ l.name = keg[1] /\ l.ver = keg[2]
\* The symlink at prefix/opt/<name> resolves to the keg.
OptPointsAtKeg(st, keg) ==
    /\ st.opt[keg[1]] = Link(keg[1], keg[2])
    /\ OptTargetExists(st, st.opt[keg[1]])

C18_IsLinkedMatchesUnlink ==
    \A keg \in LinkerKegs :
        LET u == UnlinkKeg(Cur, keg)
        IN /\ IsLinked(Cur, keg) <=> (u.bin # bin \/ u.opt # opt)
           /\ ~IsLinked(u, keg)
           /\ \A order \in Orders(BinOf(keg[1])) :
                  LinkNow(keg, order).ok => IsLinked(LinkNow(keg, order).st, keg)

----------------------------------------------------------------------------
(* The claims about plan, over SpecPlan.                                   *)

RECURSIVE Reach(_, _)
\* The names reachable from the names of S through Formula.dependencies.
Reach(S, k) ==
    IF k = 0 THEN S
    ELSE Reach(S \cup UNION {Range(Dependencies(n)) : n \in S}, k - 1)

\* The dependency closure of name, name included.
Closure(name) == Reach({name}, Cardinality(Names))
\* A dependency cycle is reachable from name.
CycleReachable(name) ==
    \E n \in Closure(name) :
        n \in Reach(Range(Dependencies(n)), Cardinality(Names))

\* Every formula of the closure of name has a bottle for the platform.
AllSupported(name) ==
    \A n \in Closure(name) : SelectBottle(n, index[n]).ok

\* plan(name) is the closure of name in a topologically valid order.
PlanIsTopological(name) ==
    LET p == Plan(index, name)
    IN /\ p.res = "ok"
       /\ {p.formulas[i].name : i \in 1..Len(p.formulas)} = Closure(name)
       /\ Len(p.formulas) = Cardinality(Closure(name))
       /\ name \in {p.formulas[i].name : i \in 1..Len(p.formulas)}
       /\ \A i \in 1..Len(p.formulas) :
              \A d \in Range(Dependencies(p.formulas[i].name)) :
                  \E j \in 1..(i - 1) : p.formulas[j].name = d
       /\ Len(p.bottles) = Len(p.formulas)
       /\ \A i \in 1..Len(p.formulas) :
              /\ p.formulas[i].version = index[p.formulas[i].name]
              /\ p.bottles[i] =
                     SelectBottle(p.formulas[i].name, p.formulas[i].version).sha256

\* C19 as stated: for every acyclic index, plan(name) returns the dependency
\* closure of name in a topologically valid order with no duplicates: every
\* dependency of the item at index i is at an index < i, the requested
\* package is present, and bottles[i] is the bottle selected from
\* formulas[i].
C19_PlanIsTopological ==
    \A name \in Served : ~CycleReachable(name) => PlanIsTopological(name)

\* C19, amended: for every acyclic index in which every formula of the
\* closure has a bottle for the platform, plan(name) returns the dependency
\* closure of name in a topologically valid order with no duplicates and
\* bottles[i] selected from formulas[i].
C19_SupportedPlanIsTopological ==
    \A name \in Served :
        (~CycleReachable(name) /\ AllSupported(name)) => PlanIsTopological(name)

\* execute is running the plan of a package with two levels of dependencies.
C19_Witness ==
    /\ run.active
    /\ run.plan = Plan(index, run.name)
    /\ Len(run.plan.formulas) = 3
    /\ ~CycleReachable(run.name)

\* C20: when a dependency cycle is reachable from the requested name,
\* install fails in plan with CircularDependency: no bottle is downloaded
\* and no store, cellar, prefix or DB state changes.
C20_CycleFailsBeforeAnyEffect ==
    [][\A name \in Served, link \in BOOLEAN, failing \in 0..2 :
           (StartInstall(name, link, failing) /\ CycleReachable(name)) =>
               /\ last'.res = "CircularDependency"
               /\ ~run'.active
               /\ UNCHANGED <<cache, store, cellar, bin, opt, installed, refs, linked>>]_vars

\* install of a package on a dependency cycle has just failed, on a root
\* where another package is installed.
C20_Witness ==
    /\ last.op = "install"
    /\ last.res = "CircularDependency"
    /\ CycleReachable(last.name)
    /\ DOMAIN installed # {}
    /\ cache # {}

C23_DependenciesInstalledFirst ==
    [][run.active =>
           LET x == CurrentItem
               keg == <<x.name, x.version>>
           IN /\ \A k \in Kegs \ {keg} : cellar'[k] = cellar[k]
              /\ \A n \in Names \ {x.name} :
                     /\ n \in DOMAIN installed' <=> n \in DOMAIN installed
                     /\ n \in DOMAIN installed => installed'[n] = installed[n]
              /\ (run' # run /\ run'.active) =>
                     /\ run'.i = run.i + 1
                     /\ run'.plan = run.plan
              /\ (cellar[keg] = "absent" /\ cellar'[keg] # "absent") =>
                     \A d \in Closure(x.name) \ {x.name} :
                         /\ d \in DOMAIN installed
                         /\ cellar[<<d, installed[d].version>>] # "absent"
                         /\ \E j \in 1..(run.i - 1) : run.plan.formulas[j].name = d]_vars

\* The keg of a package with two levels of dependencies has just been
\* created, as the last item of its plan.
C23_Witness ==
    /\ last.op = "install"
    /\ last.res = "ok"
    /\ Cardinality(Closure(last.name)) = 3
    /\ \A d \in Closure(last.name) :
           d \in DOMAIN installed /\ cellar[<<d, installed[d].version>>] = "full"

----------------------------------------------------------------------------
(* The claims about uninstall, over Spec.                                  *)

\* C24: uninstall(name) of a package with no installed record returns
\* NotInstalled and changes no symlink, DB row, keg or store entry.
C24_UninstallOfAbsentChangesNothing ==
    [][\A name \in Served, fault \in UninstallFaults :
           (Uninstall(name, fault) /\ name \notin DOMAIN installed) =>
               /\ last'.op = "uninstall"
               /\ last'.name = name
               /\ last'.res = "NotInstalled"
               /\ UNCHANGED <<cache, store, cellar, bin, opt, installed, refs, linked>>]_vars

\* uninstall has returned NotInstalled for a package whose keg, links and
\* store entry a failed install left behind.
C24_Witness ==
    /\ last.op = "uninstall"
    /\ last.res = "NotInstalled"
    /\ last.name \notin DOMAIN installed
    /\ cellar[<<last.name, index[last.name]>>] = "full"
    /\ \E e \in Exes : bin[e] = Link(last.name, index[last.name])
    /\ store # {}

----------------------------------------------------------------------------
(* select_bottle called on its own, over the bottle maps of a formula.     *)

\* The tags a bottle map may hold, in the iteration order of the BTreeMap
\* (ascending by key).
BottleTags ==
    << <<"all">>,
       <<"arm64">>,
       <<"arm64", "_", "linux">>,
       <<"arm64", "_", "sonoma">>,
       <<"arm64", "_", "ventura">>,
       <<"x86_64", "_", "sonoma">> >>

\* The BottleFile under the k-th tag: its sha256 (and url) are its own.
BottleFile(k) == [tag |-> BottleTags[k], sha256 |-> <<"sha", k>>]

\* formula.bottle.stable.files holding the tags of ks.
BottleMap(ks) ==
    LET order == SelectSeq([k \in 1..Len(BottleTags) |-> k], LAMBDA k : k \in ks)
    IN [i \in 1..Len(order) |-> BottleFile(order[i])]

BottleMaps == {BottleMap(ks) : ks \in SUBSET (1..Len(BottleTags))}

InitBottle ==
    /\ world = "shared"
    /\ index = [n \in Names |-> 1]
    /\ cache = {}
    /\ store = {}
    /\ cellar = [k \in Kegs |-> "absent"]
    /\ bin = [e \in Exes |-> NoEntry]
    /\ opt = [n \in Names |-> NoEntry]
    /\ installed = <<>>
    /\ refs = <<>>
    /\ linked = {}
    /\ run = Idle
    /\ last = Outcome("none", "", FALSE, "ok", {})
    /\ probe \in {[op |-> "formula", files |-> files] : files \in BottleMaps}
    /\ faults = 0

\* select_bottle(&formula).
SelectBottleCall ==
    /\ probe.op = "formula"
    /\ probe' = [op |-> "select_bottle", files |-> probe.files,
                 ret |-> SelectBottleOf(probe.files)]
    /\ UNCHANGED <<world, index, cache, store, cellar, bin, opt, installed,
                   refs, linked, run, last, faults>>

NextBottle == SelectBottleCall

SpecBottle == InitBottle /\ [][NextBottle]_vars

\* The tag names the arm64 family: it begins with "arm64_".
IsArm64Tag(tag) == Len(tag) >= 2 /\ tag[1] = "arm64" /\ tag[2] = "_"

\* C22: select_bottle returns the tag and sha256 (the file) of the first
\* entry in map iteration order whose tag starts with arm64_, and fails with
\* UnsupportedBottle exactly when no tag starts with arm64_.
C22_SelectBottleReturnsFirstArm64 ==
    probe.op = "select_bottle" =>
        LET files == probe.files
            hits == {k \in 1..Len(files) : IsArm64Tag(files[k].tag)}
        IN /\ probe.ret.ok <=> hits # {}
           /\ hits # {} =>
                  \E k \in hits :
                      /\ \A j \in hits : k <= j
                      /\ probe.ret.tag = files[k].tag
                      /\ probe.ret.sha256 = files[k].sha256

\* select_bottle has returned from a map with several arm64_ tags that
\* begins with tags of other families.
C22_Witness ==
    /\ probe.op = "select_bottle"
    /\ probe.ret.ok
    /\ Cardinality({k \in 1..Len(probe.files) : IsArm64Tag(probe.files[k].tag)}) >= 2
    /\ ~IsArm64Tag(probe.files[1].tag)
    /\ probe.files[2].tag = <<"arm64">>

----------------------------------------------------------------------------
(* The cellar called on its own, over file trees. A tree maps the paths    *)
(* below a directory (sequences of names, <<>> the directory itself) to     *)
(* nodes; a regular file names its inode, and inodes holds the mode and the *)
(* data of every inode, so that hard links share both. probe holds the      *)
(* store entry, the keg cellar/a/1 and the inode table.                     *)

\* The keg the cellar is called for.
TreeKeg == <<"a", 1>>

\* The directory name of a version.
VersionDir(v) == ToString(v)

\* 0o444, 0o555, 0o644, 0o755.
Modes == {292, 365, 420, 493}
\* 0o200, the owner's write bit.
WriteBit == 128
\* original_mode & 0o200 == 0
IsReadonly(mode) == (mode \div WriteBit) % 2 = 0

DirNode == [kind |-> "dir"]
FileNode(ino) == [kind |-> "file", ino |-> ino]
SymlinkNode(target) == [kind |-> "symlink", target |-> target]

\* The content of a bottle: bin/x, the symlink bin/l with a relative target
\* outside the keg and, in the larger one, share/d.
Payload(large) ==
    LET small == (<<"bin">> :> DirNode)
                 @@ (<<"bin", "x">> :> FileNode(<<"x">>))
                 @@ (<<"bin", "l">> :> SymlinkNode("../opt/x"))
    IN IF large
       THEN small @@ (<<"share">> :> DirNode) @@ (<<"share", "d">> :> FileNode(<<"d">>))
       ELSE small

\* The directories an archive may wrap its content in.
Wrappers == {<<"a", VersionDir(1)>>, <<"a", VersionDir(MaxVer + 1)>>, <<"a">>, <<>>}

\* The store entry of an archive that wraps payload in the directories of
\* wrapper; the inode of a file is named after its path in the entry.
StoreEntry(wrapper, payload) ==
    LET above == {SubSeq(wrapper, 1, k) : k \in 0..Len(wrapper)}
        below == {wrapper \o q : q \in DOMAIN payload}
    IN [p \in above \cup below |->
           IF p \in above THEN DirNode
           ELSE LET node == payload[SubSeq(p, Len(wrapper) + 1, Len(p))]
                IN IF node.kind = "file" THEN FileNode(<<"store">> \o p) ELSE node]

\* The files of a tree.
FilesOf(tree) == {p \in DOMAIN tree : tree[p].kind = "file"}

\* path.exists() && path.is_dir()
IsDir(tree, p) == p \in DOMAIN tree /\ tree[p].kind = "dir"

\* The paths of tree strictly below root, and a path relative to root.
Under(tree, root) ==
    {p \in DOMAIN tree : Len(p) > Len(root) /\ SubSeq(p, 1, Len(root)) = root}
Rel(p, root) == SubSeq(p, Len(root) + 1, Len(p))

\* keg_path.exists()
KegExists(fs) == <<>> \in DOMAIN fs.keg

\* Inodes no path refers to are freed.
Referenced(fs) ==
    LET used == {fs.entry[p].ino : p \in FilesOf(fs.entry)}
                    \cup {fs.keg[p].ino : p \in FilesOf(fs.keg)}
    IN [fs EXCEPT !.inodes = [i \in used |-> fs.inodes[i]]]

\* find_bottle_content: the path of the content root inside the store entry.
FindBottleContent(entry, name, version) ==
    LET expected_path == <<name, VersionDir(version)>>
        name_path == <<name>>
        dirs == {p \in DOMAIN entry : Len(p) = 2 /\ p[1] = name /\ entry[p].kind = "dir"}
    IN IF IsDir(entry, expected_path) THEN expected_path
       ELSE IF IsDir(entry, name_path)
       THEN IF Cardinality(dirs) = 1 THEN CHOOSE p \in dirs : TRUE ELSE name_path
       ELSE <<>>

\* The sets of entries copy_dir_recursive may have created when it stops:
\* an entry is created after its directory, and a directory is entered and
\* finished before read_dir yields its next sibling.
Complete(all, done, dir) ==
    \A q \in all : (Len(q) > Len(dir) /\ SubSeq(q, 1, Len(dir)) = dir) => q \in done
Stops(all) ==
    {done \in SUBSET all :
        /\ \A q \in done : Len(q) > 1 => SubSeq(q, 1, Len(q) - 1) \in done
        /\ \A q1, q2 \in done :
               (/\ q1 # q2
                /\ Len(q1) = Len(q2)
                /\ SubSeq(q1, 1, Len(q1) - 1) = SubSeq(q2, 1, Len(q2) - 1)) =>
                   Complete(all, done, q1) \/ Complete(all, done, q2)}

\* copy_dir_recursive that leaves a copied file with the mode it was created
\* with (0o644) instead of the permissions of its source.
CopyDirRecursiveDefaultMode(fs, root, hardlinked, done) ==
    LET all == {Rel(p, root) : p \in Under(fs.entry, root)}
        copied == {q \in done : fs.entry[root \o q].kind = "file" /\ q \notin hardlinked}
        keg == [q \in {<<>>} \cup done |->
                   IF q = <<>> THEN DirNode
                   ELSE LET node == fs.entry[root \o q]
                        IN IF node.kind = "file" /\ q \in copied
                           THEN FileNode(<<"keg">> \o q)
                           ELSE node]
        inodes == [i \in {<<"keg">> \o q : q \in copied} |->
                      [mode |-> 420,
                       data |-> fs.inodes[fs.entry[root \o SubSeq(i, 2, Len(i))].ino].data]]
    IN [fs |-> [fs EXCEPT !.keg = keg, !.inodes = inodes @@ fs.inodes],
        ok |-> done = all]

\* copy_dir_recursive(src, dst, try_hardlink) from the directory root of the
\* store entry to the keg: [fs, ok]. hard_link succeeds for the files of
\* hardlinked; done = the entries created before an error, all of them when
\* no call fails.
CopyDirRecursive(fs, root, hardlinked, done) ==
    LET all == {Rel(p, root) : p \in Under(fs.entry, root)}
        copied == {q \in done : fs.entry[root \o q].kind = "file" /\ q \notin hardlinked}
        keg == [q \in {<<>>} \cup done |->
                   IF q = <<>> THEN DirNode
                   ELSE LET node == fs.entry[root \o q]
                        IN IF node.kind = "file" /\ q \in copied
                           THEN FileNode(<<"keg">> \o q)
                           ELSE node]
        inodes == [i \in {<<"keg">> \o q : q \in copied} |->
                      fs.inodes[fs.entry[root \o SubSeq(i, 2, Len(i))].ino]]
    IN [fs |-> [fs EXCEPT !.keg = keg, !.inodes = inodes @@ fs.inodes],
        ok |-> done = all]

\* try_clonefile_dir: the whole directory in one call, every file a clone.
CloneDir(fs, root) ==
    CopyDirRecursive(fs, root, {}, {Rel(p, root) : p \in Under(fs.entry, root)})

\* A tool writes data to the file at path q of the keg: through the inode
\* when it writes in place (which needs the write bit), to a new inode of
\* the same mode that replaces the file when it writes a copy and renames.
ToolWrite(fs, q, data, in_place, tool) ==
    LET ino == fs.keg[q].ino
        old == fs.inodes[ino]
        new == <<tool>> \o q
    IN IF in_place
       THEN IF IsReadonly(old.mode) THEN fs
            ELSE [fs EXCEPT !.inodes[ino].data = data]
       ELSE [fs EXCEPT !.keg[q] = FileNode(new),
                       !.inodes = (new :> [mode |-> old.mode, data |-> data])
                                      @@ fs.inodes]

\* is_macho: the magic bytes of the file.
IsMachO(data) == data \in {"macho", "macho_patched", "macho_signed"}

\* fs::set_permissions(path, mode) on the file now at path q of the keg.
SetMode(fs, q, mode) == [fs EXCEPT !.inodes[fs.keg[q].ino].mode = mode]

\* The body of the loop of patch_homebrew_placeholders followed by the body
\* of the loop of codesign_and_strip_xattrs for the file at q.
ProcessFile(fs, q, in_place) ==
    LET p1 == IF fs.inodes[fs.keg[q].ino].data = "macho"
              THEN ToolWrite(fs, q, "macho_patched", in_place, "install_name_tool")
              ELSE fs
        original_mode == p1.inodes[p1.keg[q].ino].mode
        is_readonly == IsReadonly(original_mode)
        w1 == IF is_readonly THEN SetMode(p1, q, original_mode + WriteBit) ELSE p1
        s1 == IF IsMachO(w1.inodes[w1.keg[q].ino].data)
              THEN ToolWrite(w1, q, "macho_signed", in_place, "codesign")
              ELSE w1
    IN IF is_readonly THEN SetMode(s1, q, original_mode) ELSE s1

RECURSIVE ProcessFiles(_, _, _)
\* for entry in WalkDir::new(keg_path) { if path.is_file() { ... } }
ProcessFiles(fs, files, in_place) ==
    IF files = {} THEN fs
    ELSE LET q == CHOOSE q \in files : TRUE
         IN ProcessFiles(ProcessFile(fs, q, in_place), files \ {q}, in_place)

\* materialize without the early return: an existing keg is replaced by a
\* fresh copy of the content root.
MaterializeTreeAgain(fs, name, version, platform, clone, hardlinked, done, in_place) ==
    LET src_path == FindBottleContent(fs.entry, name, version)
        c1 == IF platform = "macos" /\ clone THEN CloneDir(fs, src_path)
              ELSE CopyDirRecursive(fs, src_path, hardlinked, done)
        h1 == IF platform = "macos"
              THEN ProcessFiles(c1.fs, FilesOf(c1.fs.keg), in_place)
              ELSE c1.fs
    IN IF ~c1.ok THEN [fs |-> Referenced(c1.fs), ok |-> FALSE, root |-> src_path]
       ELSE [fs |-> Referenced(h1), ok |-> TRUE, root |-> src_path]

\* Cellar::materialize on the file trees: [fs, ok, root].
MaterializeTree(fs, name, version, platform, clone, hardlinked, done, in_place) ==
    LET src_path == FindBottleContent(fs.entry, name, version)
        c1 == IF platform = "macos" /\ clone THEN CloneDir(fs, src_path)
              ELSE CopyDirRecursive(fs, src_path, hardlinked, done)
        h1 == IF platform = "macos"
              THEN ProcessFiles(c1.fs, FilesOf(c1.fs.keg), in_place)
              ELSE c1.fs
    IN IF KegExists(fs) THEN [fs |-> fs, ok |-> TRUE, root |-> <<>>]
       ELSE IF ~c1.ok THEN [fs |-> Referenced(c1.fs), ok |-> FALSE, root |-> src_path]
       ELSE [fs |-> Referenced(h1), ok |-> TRUE, root |-> src_path]

\* Cellar::remove_keg on the file trees.
RemoveKegTree(fs) == Referenced([fs EXCEPT !.keg = <<>>])

InitCellar ==
    /\ world = "shared"
    /\ index = [n \in Names |-> 1]
    /\ cache = {}
    /\ store = {}
    /\ cellar = [k \in Kegs |-> "absent"]
    /\ bin = [e \in Exes |-> NoEntry]
    /\ opt = [n \in Names |-> NoEntry]
    /\ installed = <<>>
    /\ refs = <<>>
    /\ linked = {}
    /\ run = Idle
    /\ last = Outcome("none", "", FALSE, "ok", {})
    /\ faults = 0
    /\ \E wrapper \in Wrappers, large \in BOOLEAN, mode \in Modes,
          data \in {"text", "macho"}, platform \in {"macos", "linux"} :
           LET entry == StoreEntry(wrapper, Payload(large))
           IN probe = [op |-> "store", platform |-> platform, entry |-> entry,
                       inodes |-> [i \in {entry[p].ino : p \in FilesOf(entry)} |->
                                      IF i[Len(i)] = "x"
                                      THEN [mode |-> mode, data |-> data]
                                      ELSE [mode |-> 420, data |-> "text"]],
                       keg |-> <<>>, existed |-> FALSE, ret |-> "none",
                       root |-> FindBottleContent(entry, TreeKeg[1], TreeKeg[2])]

\* The file system of probe.
TreeFs == [entry |-> probe.entry, inodes |-> probe.inodes, keg |-> probe.keg]

\* The entries below the content root of the store entry of probe, relative
\* to it.
ContentPaths == {Rel(p, probe.root) : p \in Under(probe.entry, probe.root)}

\* cellar.materialize("a", "1", store_entry).
MaterializeCall(clone, hardlinked, done, in_place) ==
    /\ probe.op # "none"
    /\ clone => (probe.platform = "macos" /\ hardlinked = {} /\ done = ContentPaths)
    /\ in_place => probe.platform = "macos"
    /\ KegExists(TreeFs) => (~clone /\ ~in_place /\ hardlinked = {} /\ done = ContentPaths)
    /\ hardlinked \subseteq {q \in done : probe.entry[probe.root \o q].kind = "file"}
    /\ LET r == MaterializeTree(TreeFs, TreeKeg[1], TreeKeg[2], probe.platform,
                                clone, hardlinked, done, in_place)
       IN probe' = [probe EXCEPT !.op = "materialize",
                                 !.entry = r.fs.entry,
                                 !.inodes = r.fs.inodes,
                                 !.keg = r.fs.keg,
                                 !.existed = KegExists(TreeFs),
                                 !.ret = IF r.ok THEN "ok" ELSE "StoreCorruption"]
    /\ UNCHANGED <<world, index, cache, store, cellar, bin, opt, installed,
                   refs, linked, run, last, faults>>

\* cellar.remove_keg("a", "1").
RemoveKegTreeCall ==
    /\ probe.op # "none"
    /\ LET fs == RemoveKegTree(TreeFs)
       IN probe' = [probe EXCEPT !.op = "remove_keg", !.inodes = fs.inodes,
                                 !.keg = fs.keg, !.existed = KegExists(TreeFs),
                                 !.ret = "ok"]
    /\ UNCHANGED <<world, index, cache, store, cellar, bin, opt, installed,
                   refs, linked, run, last, faults>>

\* fs::write(keg_path.join("marker.txt"), ..): a file added to the keg.
AddMarker ==
    /\ probe.op = "materialize"
    /\ KegExists(TreeFs)
    /\ <<"marker">> \notin DOMAIN probe.keg
    /\ probe' = [probe EXCEPT !.op = "write",
                              !.keg = (<<"marker">> :> FileNode(<<"marker">>)) @@ probe.keg,
                              !.inodes = (<<"marker">> :> [mode |-> 420, data |-> "text"])
                                             @@ probe.inodes]
    /\ UNCHANGED <<world, index, cache, store, cellar, bin, opt, installed,
                   refs, linked, run, last, faults>>

NextCellar ==
    \/ \E clone \in BOOLEAN, in_place \in BOOLEAN :
           \E done \in Stops(ContentPaths) :
               \E hardlinked \in SUBSET done :
                   MaterializeCall(clone, hardlinked, done, in_place)
    \/ RemoveKegTreeCall
    \/ AddMarker

SpecCellar == InitCellar /\ [][NextCellar]_vars

----------------------------------------------------------------------------
(* The claims about the cellar, over SpecCellar.                           *)

\* C26: materialize is idempotent: if the keg path already exists it returns
\* that path and modifies nothing inside the keg; a file added to the keg
\* after the first call is still there after the second.
C26_MaterializeOfExistingKegIsNoOp ==
    [][(probe'.op = "materialize" /\ KegExists(TreeFs)) =>
           /\ probe'.ret = "ok"
           /\ probe'.existed
           /\ probe'.keg = probe.keg
           /\ probe'.inodes = probe.inodes
           /\ probe'.entry = probe.entry]_vars

\* materialize has returned for a keg that holds a marker file written after
\* the first call.
C26_Witness ==
    /\ probe.op = "materialize"
    /\ probe.existed
    /\ probe.ret = "ok"
    /\ <<"marker">> \in DOMAIN probe.keg
    /\ <<"bin", "x">> \in DOMAIN probe.keg

\* The keg holds the entries of the directory root of the store entry, with
\* the same kinds, symlink targets and file data.
SameContent(root) ==
    /\ DOMAIN probe.keg \ {<<>>} = {Rel(p, root) : p \in Under(probe.entry, root)}
    /\ \A q \in DOMAIN probe.keg \ {<<>>} :
           /\ root \o q \in DOMAIN probe.entry
           /\ probe.keg[q].kind = probe.entry[root \o q].kind
           /\ probe.keg[q].kind = "symlink" => probe.keg[q] = probe.entry[root \o q]
           /\ probe.keg[q].kind = "file" =>
                  probe.inodes[probe.keg[q].ino].data
                      = probe.inodes[probe.entry[root \o q].ino].data

\* C27: whenever materialize returns a keg path, the content of the keg is
\* byte-equivalent to the content root of the store entry (same directories,
\* files and symlinks), for every copy strategy and also when an earlier
\* materialize of the same name and version failed part-way. Stated for
\* builds without the Mach-O processing and kegs nobody has written into.
C27_KegEqualsContentRoot ==
    (/\ probe.op = "materialize"
     /\ probe.ret = "ok"
     /\ probe.platform = "linux"
     /\ <<"marker">> \notin DOMAIN probe.keg) => SameContent(probe.root)

\* C28: materialization preserves the mode of every file of the content
\* root, the executable bit included, and the literal target of every
\* symlink, whichever of hardlink or byte copy is used per file.
C28_ModesAndTargetsPreserved ==
    [][(probe'.op = "materialize" /\ ~KegExists(TreeFs) /\ probe'.ret = "ok") =>
           \A p \in Under(probe.entry, probe.root) :
               LET q == Rel(p, probe.root)
                   node == probe.entry[p]
               IN /\ q \in DOMAIN probe'.keg
                  /\ probe'.keg[q].kind = node.kind
                  /\ node.kind = "symlink" => probe'.keg[q].target = node.target
                  /\ node.kind = "file" =>
                         probe'.inodes[probe'.keg[q].ino].mode
                             = probe.inodes[node.ino].mode]_vars

\* materialize has created a keg with a hardlinked file, a byte-copied
\* executable and a symlink with a relative target.
C28_Witness ==
    /\ probe.op = "materialize"
    /\ ~probe.existed
    /\ probe.ret = "ok"
    /\ <<"bin", "x">> \in DOMAIN probe.keg
    /\ <<"share", "d">> \in DOMAIN probe.keg
    /\ probe.keg[<<"bin", "x">>].ino = <<"keg", "bin", "x">>
    /\ probe.inodes[<<"keg", "bin", "x">>].mode \in {365, 493}
    /\ probe.keg[<<"share", "d">>].ino = probe.entry[probe.root \o <<"share", "d">>].ino
    /\ probe.keg[<<"bin", "l">>] = SymlinkNode("../opt/x")

\* C29: materialize, its processing of the keg after the copy included,
\* never mutates the store entry: the contents and modes of every file
\* under store/<key>/ are the same after materialize as before, also when
\* keg files are hardlinks to store files.
C29_MaterializeLeavesStoreEntry ==
    [][probe'.op = "materialize" =>
           /\ probe'.entry = probe.entry
           /\ \A p \in FilesOf(probe.entry) :
                  probe'.inodes[probe.entry[p].ino] = probe.inodes[probe.entry[p].ino]]_vars

\* A directory named as a version.
IsVersionDir(entry, p) ==
    IsDir(entry, p) /\ \E v \in 1..(MaxVer + 1) : p[Len(p)] = VersionDir(v)

\* The content root by the chain <name>/<version>/, the sole version
\* directory under <name>/, <name>/, the store entry root.
ChainRoot(entry, name, version) ==
    LET versions == {p \in DOMAIN entry :
                        Len(p) = 2 /\ p[1] = name /\ IsVersionDir(entry, p)}
    IN IF IsDir(entry, <<name, VersionDir(version)>>) THEN <<name, VersionDir(version)>>
       ELSE IF Cardinality(versions) = 1 THEN CHOOSE p \in versions : TRUE
       ELSE IF IsDir(entry, <<name>>) THEN <<name>>
       ELSE <<>>

\* C30: the content root materialize copies is store/<key>/<name>/<version>/
\* if it is a directory, otherwise the sole version directory under
\* store/<key>/<name>/, otherwise store/<key>/<name>/, otherwise the store
\* entry root, so that a wrapped archive and a flat archive both give a keg
\* with bin/ directly under cellar/<name>/<version>/.
C30_ContentRootFollowsChain ==
    (probe.op = "materialize" /\ ~probe.existed /\ probe.ret = "ok") =>
        /\ probe.root = ChainRoot(probe.entry, TreeKeg[1], TreeKeg[2])
        /\ IsDir(probe.keg, <<"bin">>)

----------------------------------------------------------------------------
(* The claims about sequences of calls and about failures, over Spec.      *)

\* What the root holds of package y: its installed row, its linked_files
\* rows, its keg, its links and its store entry.
Holding(st, y) ==
    [row |-> IF y \in DOMAIN st.installed THEN <<st.installed[y]>> ELSE <<>>,
     rows |-> {r \in st.linked : r.name = y},
     kegs |-> [v \in Versions |-> st.cellar[<<y, v>>]],
     links |-> {e \in Exes : st.bin[e].kind = "link" /\ st.bin[e].name = y},
     opt |-> st.opt[y],
     entries |-> {k \in st.store : k[1] = y}]

\* C31: with packages a and b installed and sharing no store entry,
\* uninstall(a) followed by gc() removes exactly the store entry of a and
\* returns exactly that key; the installed record, keg, links and store entry
\* of b are unchanged.
C31_UninstallThenGcRemovesOwnEntry ==
    ~run.active =>
        \A x, y \in DOMAIN installed :
            (x # y /\ installed[x].store_key # installed[y].store_key) =>
                LET u == UninstallOp(Cur, x, "none")
                    g == GcOp(u.st)
                    key == installed[x].store_key
                IN u.res = "ok" =>
                       /\ g.removed = {key}
                       /\ g.st.store = store \ {key}
                       /\ key \in store
                       /\ Holding(g.st, y) = Holding(Cur, y)

\* C32: if the download of a bottle of the plan fails (the served bytes do
\* not hash to the declared sha256 X), execute returns that error with
\* cache/X absent and with no DB mutation, no store entry, no keg and no link
\* created for any item of the plan.
C32_FailedDownloadChangesNothing ==
    [][\A name \in Served, link \in BOOLEAN, failing \in 1..2 :
           StartInstall(name, link, failing) =>
               /\ last'.res = "ChecksumMismatch"
               /\ ~run'.active
               /\ Plan(index, name).bottles[failing] \notin cache'
               /\ UNCHANGED <<store, cellar, bin, opt, installed, refs, linked>>]_vars

\* install of a package with a dependency has failed with ChecksumMismatch
\* for the package's own bottle, after the bottle of the dependency was
\* downloaded.
C32_Witness ==
    /\ last.op = "install"
    /\ last.res = "ChecksumMismatch"
    /\ Len(Dependencies(last.name)) > 0
    /\ SelectBottle(last.name, index[last.name]).sha256 \notin cache
    /\ cache # {}
    /\ store = {}

\* x has never been installed on this root: no installed row and no keg.
Fresh(x) == x \notin DOMAIN installed /\ cellar[<<x, index[x]>>] = "absent"

\* Some prefix/bin/<e> of x pre-exists as a regular file, and no other entry
\* of x is taken by a link of another keg.
BlockedByFile(x) ==
    /\ \E e \in BinOf(x) : bin[e] = RealFile
    /\ \A e \in BinOf(x) : bin[e] \in {NoEntry, RealFile, Dangling}

\* The root st after the user has removed their regular files at the bin
\* entries of x.
FilesRemoved(st, x) ==
    [st EXCEPT !.bin = [e \in Exes |->
                           IF e \in BinOf(x) /\ st.bin[e] = RealFile THEN NoEntry
                           ELSE st.bin[e]]]

\* C33: when prefix/bin/foo pre-exists as a regular file, install(foo)
\* materializes the keg but returns LinkConflict with no installed record;
\* after the file is removed a second install(foo) succeeds without
\* downloading again (blob cache and store entry are reused) and ends with
\* foo installed and linked.
C33_InstallAfterConflictSucceeds ==
    ~run.active =>
        \A x \in Served, ord1 \in OrderMaps, ord2 \in OrderMaps :
            (Fresh(x) /\ BlockedByFile(x)) =>
                LET keg == <<x, index[x]>>
                    r1 == InstallOp(Cur, x, TRUE, ord1)
                    r2 == InstallOp(FilesRemoved(r1.st, x), x, TRUE, ord2)
                IN /\ r1.res = "LinkConflict"
                   /\ r1.st.cellar[keg] = "full"
                   /\ x \notin DOMAIN r1.st.installed
                   /\ \A e \in BinOf(x) : bin[e] = RealFile => r1.st.bin[e] = RealFile
                   /\ r2.res = "ok"
                   /\ r2.st.cache = r1.st.cache
                   /\ r2.st.store = r1.st.store
                   /\ x \in DOMAIN r2.st.installed
                   /\ r2.st.installed[x].version = index[x]
                   /\ \A e \in BinOf(x) :
                          /\ r2.st.bin[e] = Link(x, index[x])
                          /\ \E r \in r2.st.linked : r.name = x /\ r.link = e

\* A root with another package installed where a package that was never
\* installed meets a regular file at one of its bin entries: its install
\* returns LinkConflict, and succeeds once the file is removed.
C33_Witness ==
    /\ ~run.active
    /\ DOMAIN installed # {}
    /\ \E x \in Served, ord \in OrderMaps :
           LET r1 == InstallOp(Cur, x, TRUE, ord)
           IN /\ Fresh(x)
              /\ BlockedByFile(x)
              /\ r1.res = "LinkConflict"
              /\ InstallOp(FilesRemoved(r1.st, x), x, TRUE, ord).res = "ok"

----------------------------------------------------------------------------
(* Progress events (zb_io/src/progress.rs).                                *)

\* The variants of InstallProgress.
InstallProgress ==
    {"DownloadStarted", "DownloadProgress", "DownloadCompleted", "UnpackStarted",
     "UnpackCompleted", "LinkStarted", "LinkCompleted", "Skipped"}

Event(kind, name) == [kind |-> kind, name |-> name]

\* The events download_all(requests) publishes for one request: execute hands
\* the downloader the requests (url, sha256) and no callback.
DownloadEvents(name) == <<>>

\* The events one iteration of the loop of execute publishes: ensure_entry,
\* materialize, link_keg and the transaction are called one after the other
\* and no InstallProgress value is built between them.
ItemEvents(formula, link) == <<>>

RECURSIVE EventsOfItems(_, _, _)
EventsOfItems(plan, link, k) ==
    IF k > Len(plan.formulas) THEN <<>>
    ELSE ItemEvents(plan.formulas[k], link) \o EventsOfItems(plan, link, k + 1)

RECURSIVE EventsOfDownloads(_, _)
EventsOfDownloads(plan, k) ==
    IF k > Len(plan.formulas) THEN <<>>
    ELSE DownloadEvents(plan.formulas[k].name) \o EventsOfDownloads(plan, k + 1)

\* The events a call of execute that returns Ok publishes, in order.
ExecuteEvents(plan, link) == EventsOfDownloads(plan, 1) \o EventsOfItems(plan, link, 1)

\* The kinds of the events about one package, in the order of their emission.
KindsOf(events, name) ==
    LET own == SelectSeq(events, LAMBDA ev : ev.name = name)
    IN [k \in 1..Len(own) |-> own[k].kind]

\* The lifecycle order of the events of one package.
Lifecycle(kinds) ==
    \E n \in 0..Len(kinds), link_end \in {"LinkCompleted", "LinkSkipped"} :
        kinds = <<"DownloadStarted">> \o [k \in 1..n |-> "DownloadProgress"]
                    \o <<"DownloadCompleted", "UnpackStarted", "UnpackCompleted",
                         "LinkStarted", link_end, "InstallCompleted">>

\* C34: when execute with link = true has installed a plan, the events it
\* published about each package of the plan are, in order, DownloadStarted,
\* any number of DownloadProgress, DownloadCompleted, UnpackStarted,
\* UnpackCompleted, LinkStarted, LinkCompleted or LinkSkipped, InstallCompleted.
C34_EventsInLifecycleOrder ==
    (~run.active /\ last.op = "install" /\ last.res = "ok" /\ last.link) =>
        LET plan == Plan(index, last.name)
        IN \A k \in 1..Len(plan.formulas) :
               Lifecycle(KindsOf(ExecuteEvents(plan, last.link), plan.formulas[k].name))

----------------------------------------------------------------------------
(* Keg-only formulas.                                                      *)

\* The keg_only attribute of the formula JSON the index serves: b is a
\* library the platform also ships. Formula (zb_core/src/formula.rs) has no
\* field for it, so the records of a plan do not carry it.
KegOnly(name) == name = "b"

\* C35: when execute with link = true has installed a plan, each keg-only
\* package of the plan has its prefix/opt/<name> symlink, no symlink of
\* prefix/bin points into its keg and it has no linked_files rows.
C35_KegOnlyHasNoBinLinks ==
    (~run.active /\ last.op = "install" /\ last.res = "ok" /\ last.link) =>
        LET plan == Plan(index, last.name)
        IN \A k \in 1..Len(plan.formulas) :
               LET f == plan.formulas[k]
               IN KegOnly(f.name) =>
                      /\ opt[f.name] = Link(f.name, f.version)
                      /\ \A e \in Exes : ~(bin[e].kind = "link" /\ bin[e].name = f.name)
                      /\ \A r \in linked : r.name # f.name

----------------------------------------------------------------------------
(* The opt symlinks and the installed table.                               *)

\* C36: between calls, a package whose prefix/opt/<name> exists has an
\* installed row, and the symlink points at the keg of the version the row
\* records, which is on disk.
C36_OptLinkMatchesRecord ==
    ~run.active =>
        \A n \in Names :
            opt[n] # NoEntry =>
                /\ n \in DOMAIN installed
                /\ opt[n] = Link(n, installed[n].version)
                /\ cellar[<<n, installed[n].version>>] # "absent"

----------------------------------------------------------------------------
(* fetch_all_formulas run one iteration of its loop at a time, over every  *)
(* index of three formulas whose dependency lists have at most two entries *)
(* (a list may repeat a name and may name its own formula) and over two    *)
(* indexes of four formulas with a diamond. probe holds the index, the     *)
(* name asked for, the map `formulas` (its keys), the stack `to_fetch` and *)
(* the number of get_formula calls made for each name.                     *)

FetchNames == Names \cup {"d"}

\* Formula.dependencies of a formula of a three-formula index.
DepLists ==
    {<<>>} \cup {<<n>> : n \in Names} \cup {<<n, m>> : n, m \in Names}

\* a depends on b and c, which both depend on d.
Diamond ==
    [n \in FetchNames |->
        CASE n = "a" -> <<"b", "c">>
          [] n = "b" -> <<"d">>
          [] n = "c" -> <<"d">>
          [] OTHER -> <<>>]

\* The diamond whose d depends on a and on itself.
DiamondWithCycle == [Diamond EXCEPT !["d"] = <<"a", "d">>]

FetchIndexes ==
    {[n \in FetchNames |-> IF n \in Names THEN g[n] ELSE <<>>] : g \in [Names -> DepLists]}
        \cup {Diamond, DiamondWithCycle}

\* One iteration of `while let Some(fetch_name) = to_fetch.pop()`, or the
\* return of Ok(formulas) when the stack is empty.
FetchIterationRefetches(p) ==
    IF p.to_fetch = <<>> THEN [p EXCEPT !.done = TRUE]
    ELSE LET fetch_name == Last(p.to_fetch)
             rest == Front(p.to_fetch)
         IN [p EXCEPT !.to_fetch = PushDeps(rest, p.deps[fetch_name], 1, p.formulas),
                      !.formulas = @ \cup {fetch_name},
                      !.fetched[fetch_name] = @ + 1]

FetchIteration(p) ==
    IF p.to_fetch = <<>> THEN [p EXCEPT !.done = TRUE]
    ELSE LET fetch_name == Last(p.to_fetch)
             rest == Front(p.to_fetch)
         IN IF fetch_name \in p.formulas
            THEN [p EXCEPT !.to_fetch = rest]
            ELSE [p EXCEPT !.to_fetch = PushDeps(rest, p.deps[fetch_name], 1, p.formulas),
                           !.formulas = @ \cup {fetch_name},
                           !.fetched[fetch_name] = @ + 1]

InitFetch ==
    /\ world = "shared"
    /\ index = [n \in Names |-> 1]
    /\ cache = {}
    /\ store = {}
    /\ cellar = [k \in Kegs |-> "absent"]
    /\ bin = [e \in Exes |-> NoEntry]
    /\ opt = [n \in Names |-> NoEntry]
    /\ installed = <<>>
    /\ refs = <<>>
    /\ linked = {}
    /\ run = Idle
    /\ last = Outcome("none", "", FALSE, "ok", {})
    /\ probe \in {[op |-> "fetch", deps |-> deps, name |-> name, formulas |-> {},
                   to_fetch |-> <<name>>, fetched |-> [n \in FetchNames |-> 0],
                   done |-> FALSE] : deps \in FetchIndexes, name \in Names}
    /\ faults = 0

FetchStep ==
    /\ probe.op = "fetch"
    /\ ~probe.done
    /\ probe' = FetchIteration(probe)
    /\ UNCHANGED <<world, index, cache, store, cellar, bin, opt, installed,
                   refs, linked, run, last, faults>>

NextFetch == FetchStep

\* The loop runs in one task and every get_formula call returns, so an
\* iteration that can run does run.
SpecFetch == InitFetch /\ [][NextFetch]_vars /\ WF_vars(FetchStep)

RECURSIVE ReachableFrom(_, _)
\* The formulas reachable from those of S along dependencies.
ReachableFrom(deps, S) ==
    LET more == S \cup UNION {Range(deps[n]) : n \in S}
    IN IF more = S THEN S ELSE ReachableFrom(deps, more)

\* C37: fetch_all_formulas returns, and when it does it has fetched every
\* formula reachable from the requested name exactly once and no other
\* formula, whatever the index (cycles, self-dependencies, repeated
\* dependencies and diamonds included).
C37_FetchTerminatesFetchingEachOnce ==
    <>(/\ probe.done
       /\ probe.formulas = ReachableFrom(probe.deps, {probe.name})
       /\ \A n \in FetchNames :
              probe.fetched[n] = IF n \in ReachableFrom(probe.deps, {probe.name}) THEN 1 ELSE 0)

\* fetch_all_formulas has returned on the diamond whose bottom depends on
\* the top and on itself.
C37_Witness ==
    /\ probe.op = "fetch"
    /\ probe.done
    /\ probe.deps = DiamondWithCycle
    /\ probe.name = "a"
    /\ probe.formulas = FetchNames
    /\ \A n \in FetchNames : probe.fetched[n] = 1

----------------------------------------------------------------------------
(* gc called twice.                                                        *)

\* C38: between calls, gc returns exactly the keys of the store entries it
\* removes, and a gc right after it returns no key and changes nothing.
C38_GcReturnsWhatItRemovedOnce ==
    ~run.active =>
        LET g1 == GcOp(Cur)
            g2 == GcOp(g1.st)
        IN /\ g1.removed = store \ g1.st.store
           /\ g2.removed = {}
           /\ g2.st = g1.st

----------------------------------------------------------------------------
(* uninstall that fails.                                                   *)

\* C39: between calls, an uninstall of an installed package that returns an
\* error (the DB transaction fails, or remove_keg fails after the commit)
\* leaves the installed rows, the linked_files rows, the symlinks of
\* prefix/bin and prefix/opt and the kegs as they were before the call.
C39_FailedUninstallChangesNothing ==
    ~run.active =>
        \A x \in DOMAIN installed, fault \in UninstallFaults :
            LET u == UninstallOp(Cur, x, fault)
            IN u.res # "ok" =>
                   /\ u.st.installed = installed
                   /\ u.st.linked = linked
                   /\ u.st.bin = bin
                   /\ u.st.opt = opt
                   /\ u.st.cellar = cellar

----------------------------------------------------------------------------
(* execute with link = false.                                              *)

\* C40: between calls, an install with link = false that returns Ok leaves
\* prefix/bin and prefix/opt as they were, adds no linked_files row, has an
\* installed row at the indexed version for every item of its plan, with no
\* linked_files row for an item that had no installed row before; and an
\* uninstall of any item after it leaves every prefix/bin entry that does not
\* point into that item's kegs, and every other package's prefix/opt link,
\* as it was.
C40_InstallWithoutLinkTouchesNoLink ==
    ~run.active =>
        \A x \in Served, ord \in OrderMaps :
            LET plan == Plan(index, x)
                r == InstallOp(Cur, x, FALSE, ord)
            IN r.res = "ok" =>
                   /\ r.st.bin = bin
                   /\ r.st.opt = opt
                   /\ r.st.linked = linked
                   /\ \A k \in 1..Len(plan.formulas) :
                          LET f == plan.formulas[k]
                              u == UninstallOp(r.st, f.name, "none")
                          IN /\ f.name \in DOMAIN r.st.installed
                             /\ r.st.installed[f.name].version = f.version
                             /\ f.name \notin DOMAIN installed =>
                                    \A row \in r.st.linked : row.name # f.name
                             /\ u.res = "ok"
                             /\ \A e \in Exes :
                                    r.st.bin[e].name # f.name => u.st.bin[e] = r.st.bin[e]
                             /\ \A n \in Names \ {f.name} : u.st.opt[n] = r.st.opt[n]

\* c is installed and linked at prefix/bin/t, a (which ships bin/t too) is
\* not installed, and install(a, link = false) returns Ok.
C40_Witness ==
    /\ ~run.active
    /\ world = "shared"
    /\ "c" \in DOMAIN installed
    /\ bin["t"] = Link("c", installed["c"].version)
    /\ opt["c"] = Link("c", installed["c"].version)
    /\ "a" \notin DOMAIN installed
    /\ \E ord \in OrderMaps : InstallOp(Cur, "a", FALSE, ord).res = "ok"


====
